---------------------------- MODULE Spec2Model ----------------------------
(***************************************************************************)
(* A model of gmx.py: the command dispatcher gmx (direct execution or      *)
(* batch-script generation and submission) and the plotting dispatcher xvg *)
(* with xvg_line, xvg_multi_line and xvg_multi_density.                    *)
(*                                                                         *)
(* Python values are tagged records, so that None, a string, a list and a  *)
(* dict are distinct values and "%s" formatting has something to convert.  *)
(* A dict whose iteration order matters (inputs, outputs) is the sequence  *)
(* of its <<key, value>> items in insertion order.                         *)
(***************************************************************************)
EXTENDS Integers, Sequences, FiniteSets, TLC

VARIABLES
    pc,            \* position of the current gmx call
    executable, arguments, inputs, outputs,      \* parameters of the call:
    name, path, ensemble, scheduler, wait, stdin, \* the caller's objects
    cmd,           \* local cmd (lines 25-39)
    schdlr,        \* local schdlr (lines 61-72)
    last_schdlr,   \* the mapping the previous scheduled call built
    batch_script,  \* local batch_script (lines 74-88)
    io,            \* file and process operations of the current call, in order
    error,         \* the exception the current call ended with
    xpc, replicas, multi_lines, plot_type, movavg, xensemble, values, data,
    i, html, figures, moving_avg, xerror, clock

gmxvars == <<pc, executable, arguments, inputs, outputs, name, path, ensemble,
             scheduler, wait, stdin, cmd, schdlr, last_schdlr, batch_script,
             io, error>>
xvgvars == <<xpc, replicas, multi_lines, plot_type, movavg, xensemble, values,
             data, i, html, figures, moving_avg, xerror, clock>>
vars == <<gmxvars, xvgvars>>

---------------------------------------------------------------------------
(* Python values *)

None == [type |-> "NoneType"]
Str(s) == [type |-> "str", val |-> s]
List(q) == [type |-> "list", val |-> q]
Dict(f) == [type |-> "dict", val |-> f]

\* "%s" % v for the values the model passes to it
Fmt(v) == IF v = None THEN "None" ELSE v.val

\* sep.join(parts)
RECURSIVE Join(_, _)
Join(sep, parts) ==
    IF parts = <<>> THEN ""
    ELSE IF Len(parts) = 1 THEN parts[1]
    ELSE parts[1] \o sep \o Join(sep, Tail(parts))

\* the list [k1, v1, k2, v2, ...] that "for flag, file in d.items():
\* cmd.extend([flag, file])" appends
RECURSIVE ExtendItems(_)
ExtendItems(items) ==
    IF items = <<>> THEN <<>>
    ELSE <<items[1][1], items[1][2]>> \o ExtendItems(Tail(items))

---------------------------------------------------------------------------
(* gmx: the command line, lines 24-39 *)

\* BuildCmd with the two loops of lines 34-39 in the other order
BuildCmdOutputsFirst(exe, args, ins, outs) ==
    LET start == IF exe = "mdrun" THEN <<"mpirun", "gmx_mpi", exe>>
                 ELSE <<"gmx", exe>>
    IN  start \o args \o ExtendItems(outs) \o ExtendItems(ins)

BuildCmd(exe, args, ins, outs) ==
    LET start == IF exe = "mdrun" THEN <<"mpirun", "gmx_mpi", exe>>
                 ELSE <<"gmx", exe>>
    IN  start \o args \o ExtendItems(ins) \o ExtendItems(outs)

(* gmx: the job configuration, lines 61-72 *)

\* DefaultSchdlr as one mapping shared by all calls, which line 72 then
\* changes for good
DefaultSchdlrShared(nm, ens) ==
    IF last_schdlr # <<>> THEN last_schdlr
    ELSE [job_name        |-> Str(Fmt(nm) \o Fmt(ens)),
          output          |-> Str(Fmt(ens) \o ".slurm.log"),
          partition       |-> Str("andromeda"),
          nodes           |-> Str("1-12"),
          ntasks_per_node |-> Str("1"),
          ntasks          |-> Str("10"),
          modules         |-> List(<<"module load mpi/mpich-x86_64",
                                     "module load gromacs/2023.5-plumed">>)]

DefaultSchdlr(nm, ens) ==
    [job_name        |-> Str(Fmt(nm) \o Fmt(ens)),
     output          |-> Str(Fmt(ens) \o ".slurm.log"),
     partition       |-> Str("andromeda"),
     nodes           |-> Str("1-12"),
     ntasks_per_node |-> Str("1"),
     ntasks          |-> Str("10"),
     modules         |-> List(<<"module load mpi/mpich-x86_64",
                                "module load gromacs/2023.5-plumed">>)]

\* MergeSchdlr taking only the override's values that are not None
MergeSchdlrSkipNone(base, sched) ==
    IF sched = None THEN base
    ELSE [key \in DOMAIN base \cup DOMAIN sched.val |->
            IF key \in DOMAIN sched.val
               /\ (sched.val[key] # None \/ key \notin DOMAIN base)
            THEN sched.val[key] ELSE base[key]]

MergeSchdlr(base, sched) ==
    IF sched = None THEN base
    ELSE [key \in DOMAIN base \cup DOMAIN sched.val |->
            IF key \in DOMAIN sched.val THEN sched.val[key] ELSE base[key]]

(* gmx: the script, lines 74-88 *)

BatchScript(cfg, command) ==
    <<"#!/bin/bash",
      "",
      "#SBATCH --job-name=" \o Fmt(cfg["job_name"]),
      "#SBATCH --output=" \o Fmt(cfg["output"]),
      IF cfg["partition"] # None
          THEN "#SBATCH --partition=" \o Fmt(cfg["partition"]) ELSE "",
      IF cfg["nodes"] # None
          THEN "#SBATCH --nodes=" \o Fmt(cfg["nodes"]) ELSE "",
      "#SBATCH --ntasks=" \o Fmt(cfg["ntasks"]),
      IF cfg["ntasks_per_node"] # None
          THEN "#SBATCH --ntasks-per-node=" \o Fmt(cfg["ntasks_per_node"])
          ELSE "",
      "",
      "# Required modules">>
    \o cfg["modules"].val
    \o <<"",
         "# Run the molecular dynamics simulation",
         Join(" ", command)>>

ScriptFile(p, ens) == Fmt(p) \o "/" \o Fmt(ens) \o ".slurm"

SbmttrCmd(ens, w) ==
    IF w THEN <<"sbatch", "--wait", Fmt(ens) \o ".slurm">>
    ELSE <<"sbatch", Fmt(ens) \o ".slurm">>

---------------------------------------------------------------------------
(* The calls explored *)

MaxArgs == 2

ArgTokens == {"-v", "-cpi"}
InFlags == {"-f", "-c"}
OutFlags == {"-o", "-e"}

RECURSIVE SeqsUpTo(_, _)
SeqsUpTo(S, n) ==
    IF n = 0 THEN {<<>>}
    ELSE LET shorter == SeqsUpTo(S, n - 1)
         IN  shorter \cup {Append(q, x) : q \in shorter, x \in S}

\* a dict holds a key once: the item lists over the flags, without repetition
FileOf(flag) == "file" \o flag
ItemLists(flags) ==
    {q \in SeqsUpTo({<<f, FileOf(f)>> : f \in flags}, Cardinality(flags)) :
        \A a, b \in 1..Len(q) : a # b => q[a][1] # q[b][1]}

Executables == {"mdrun", "grompp"}
Names == {None, Str("sys")}
Paths == {None, Str("run")}
Ensembles == {None, Str("nvt")}
Stdins == {None, Str("1")}
Schedulers ==
    {None,
     Dict(<<>>),
     Dict([partition |-> None]),
     Dict([partition |-> Str("gpu")]),
     Dict([ntasks |-> None]),
     Dict([nodes |-> None, ntasks_per_node |-> Str("4")]),
     Dict([job_name |-> None, output |-> Str("out.log")]),
     Dict([modules |-> List(<<"module load gromacs">>)]),
     Dict([account |-> Str("proj")])}

\* the calls that vary the command line: up to MaxArgs free arguments, the
\* input flags and the output flags in every order, for either path, with
\* name, path and ensemble all given or all left at their defaults
CmdCalls ==
    {[executable |-> exe, arguments |-> args, inputs |-> ins, outputs |-> outs,
      name |-> IF given THEN Str("sys") ELSE None,
      path |-> IF given THEN Str("run") ELSE None,
      ensemble |-> IF given THEN Str("nvt") ELSE None,
      scheduler |-> None, wait |-> FALSE, stdin |-> None] :
        exe \in Executables, args \in SeqsUpTo(ArgTokens, MaxArgs),
        ins \in ItemLists(InFlags), outs \in ItemLists(OutFlags),
        given \in BOOLEAN}

\* the calls that vary the other parameters, each by itself, over shorter
\* command lines
ParamCalls ==
    {[executable |-> exe, arguments |-> args, inputs |-> ins, outputs |-> outs,
      name |-> nm, path |-> p, ensemble |-> ens,
      scheduler |-> sched, wait |-> w, stdin |-> sin] :
        exe \in Executables, args \in {<<>>, <<"-v">>},
        ins \in ItemLists(InFlags), outs \in ItemLists({"-o"}),
        nm \in Names, p \in Paths, ens \in Ensembles,
        sched \in Schedulers, w \in BOOLEAN, sin \in Stdins}

Calls == CmdCalls \cup ParamCalls

\* print passes on whatever the write of sys.stdout raises. The streams
\* explored, beside one that writes: one whose device fails, a closed one, a
\* detached one, a deleted sys.stdout, an object without write, a stream of
\* bytes; these raise whatever the text is
StreamErrors ==
    {"OSError",
     "ValueError: I/O operation on closed file.",
     "ValueError: underlying buffer has been detached",
     "RuntimeError: lost sys.stdout",
     "AttributeError: 'object' object has no attribute 'write'",
     "TypeError: a bytes-like object is required, not 'str'"}

\* and a stream whose encoding lacks a character of the text, with a known
\* error handler or an unknown one: these raise for a text outside the
\* encoding only
EncodingErrors ==
    {"UnicodeEncodeError",
     "LookupError: unknown error handler name 'nosuchhandler'"}

\* what print(process.stdout) and print(process.stderr) raise, the text
\* being the command's output
PrintErrors == StreamErrors \cup EncodingErrors

\* what display(HTML(html)) raises outside a notebook, where it prints the
\* object's name, a text every encoding holds
DisplayErrors == StreamErrors

Unbound == <<>>

---------------------------------------------------------------------------
(* gmx, step by step; a step ends where the call touches a file or a       *)
(* process, or raises                                                      *)

xvgIdle ==
    /\ xpc = "idle"
    /\ replicas = None /\ multi_lines = FALSE /\ plot_type = "values"
    /\ movavg = 0 /\ xensemble = "" /\ values = None /\ data = <<>>
    /\ i = 0 /\ html = <<>> /\ figures = <<>> /\ moving_avg = <<>>
    /\ xerror = "none" /\ clock = 0

Init ==
    /\ pc = "idle"
    /\ executable = "" /\ arguments = <<>> /\ inputs = <<>> /\ outputs = <<>>
    /\ name = None /\ path = None /\ ensemble = None /\ scheduler = None
    /\ wait = FALSE /\ stdin = None
    /\ cmd = <<>> /\ schdlr = Unbound /\ last_schdlr = Unbound
    /\ batch_script = <<>> /\ io = <<>> /\ error = "none"
    /\ xvgIdle

\* line 8: the caller calls gmx
GmxCall ==
    /\ pc = "idle"
    /\ \E c \in Calls :
        /\ executable' = c.executable /\ arguments' = c.arguments
        /\ inputs' = c.inputs /\ outputs' = c.outputs
        /\ name' = c.name /\ path' = c.path /\ ensemble' = c.ensemble
        /\ scheduler' = c.scheduler /\ wait' = c.wait /\ stdin' = c.stdin
    /\ pc' = "called"
    /\ UNCHANGED <<cmd, schdlr, last_schdlr, batch_script, io, error, xvgvars>>

\* lines 24-39
GmxBuild ==
    /\ pc = "called"
    /\ cmd' = BuildCmd(executable, arguments, inputs, outputs)
    /\ pc' = "built"
    /\ UNCHANGED <<executable, arguments, inputs, outputs, name, path,
                   ensemble, scheduler, wait, stdin, schdlr, last_schdlr,
                   batch_script, io, error, xvgvars>>

\* GmxDirect without the test of line 42
GmxDirectAlways ==
    /\ pc = "built"
    /\ \E started \in BOOLEAN :
        /\ io' = Append(io, [op |-> "run", argv |-> cmd, cwd |-> path,
                             input |-> stdin, capture |-> TRUE])
        /\ pc' = IF started THEN "running" ELSE "raised"
        /\ error' = IF started THEN error ELSE "OSError"
    /\ UNCHANGED <<executable, arguments, inputs, outputs, name, path,
                   ensemble, scheduler, wait, stdin, cmd, schdlr, last_schdlr,
                   batch_script, xvgvars>>

\* lines 42-44: subprocess.run starts the command, or raises (no such
\* executable, no such directory)
GmxDirect ==
    /\ pc = "built"
    /\ executable # "mdrun"
    /\ \E started \in BOOLEAN :
        /\ io' = Append(io, [op |-> "run", argv |-> cmd, cwd |-> path,
                             input |-> stdin, capture |-> TRUE])
        /\ pc' = IF started THEN "running" ELSE "raised"
        /\ error' = IF started THEN error ELSE "OSError"
    /\ UNCHANGED <<executable, arguments, inputs, outputs, name, path,
                   ensemble, scheduler, wait, stdin, cmd, schdlr, last_schdlr,
                   batch_script, xvgvars>>

\* line 44, the rest of subprocess.run: the command ends and its output is
\* decoded (text=True), or is not text and the decoding raises
GmxCommunicate ==
    /\ pc = "running"
    /\ \E decoded \in BOOLEAN :
        /\ pc' = IF decoded THEN "ran" ELSE "raised"
        /\ error' = IF decoded THEN error ELSE "UnicodeDecodeError"
    /\ UNCHANGED <<executable, arguments, inputs, outputs, name, path,
                   ensemble, scheduler, wait, stdin, cmd, schdlr, last_schdlr,
                   batch_script, io, xvgvars>>

\* lines 46-47: print(process.stdout) begins; the write to sys.stdout
\* succeeds, or raises one of PrintErrors and line 48 is not reached
GmxPrint ==
    /\ pc = "ran"
    /\ \E outcome \in {"written"} \cup PrintErrors :
        /\ io' = Append(io, [op |-> "print", what |-> "stdout"])
        /\ pc' = IF outcome = "written" THEN "printed" ELSE "raised"
        /\ error' = IF outcome = "written" THEN error ELSE outcome
    /\ UNCHANGED <<executable, arguments, inputs, outputs, name, path,
                   ensemble, scheduler, wait, stdin, cmd, schdlr, last_schdlr,
                   batch_script, xvgvars>>

\* line 48: print(process.stderr) begins, and likewise succeeds or raises
GmxPrintStderr ==
    /\ pc = "printed"
    /\ \E outcome \in {"written"} \cup PrintErrors :
        /\ io' = Append(io, [op |-> "print", what |-> "stderr"])
        /\ pc' = IF outcome = "written" THEN "returned" ELSE "raised"
        /\ error' = IF outcome = "written" THEN error ELSE outcome
    /\ UNCHANGED <<executable, arguments, inputs, outputs, name, path,
                   ensemble, scheduler, wait, stdin, cmd, schdlr, last_schdlr,
                   batch_script, xvgvars>>

\* MissingParameter without the test of line 57
MissingParameterNoPath(nm, p, ens) ==
    IF ens = None THEN "ValueError: ensemble must be provided."
    ELSE IF nm = None THEN "ValueError: name must be provided."
    ELSE "none"

\* lines 51-58
MissingParameter(nm, p, ens) ==
    IF ens = None THEN "ValueError: ensemble must be provided."
    ELSE IF nm = None THEN "ValueError: name must be provided."
    ELSE IF p = None THEN "ValueError: path must be provided."
    ELSE "none"

GmxValidate ==
    /\ pc = "built"
    /\ executable = "mdrun"
    /\ error' = MissingParameter(name, path, ensemble)
    /\ pc' = IF error' = "none" THEN "validated" ELSE "raised"
    /\ UNCHANGED <<executable, arguments, inputs, outputs, name, path,
                   ensemble, scheduler, wait, stdin, cmd, schdlr, last_schdlr,
                   batch_script, io, xvgvars>>

\* lines 61-88
GmxRender ==
    /\ pc = "validated"
    /\ schdlr' = MergeSchdlr(DefaultSchdlr(name, ensemble), scheduler)
    /\ batch_script' = BatchScript(schdlr', cmd)
    /\ pc' = "rendered"
    /\ UNCHANGED <<executable, arguments, inputs, outputs, name, path,
                   ensemble, scheduler, wait, stdin, cmd, last_schdlr, io,
                   error, xvgvars>>

\* GmxWrite with a failure of lines 91-92 caught and passed over
GmxWriteCaught ==
    /\ pc = "rendered"
    /\ \E outcome \in {"written", "open fails"} :
        LET file == ScriptFile(path, ensemble)
        IN  io' = IF outcome = "written"
                  THEN io \o <<[op |-> "open", file |-> file, mode |-> "w"],
                               [op |-> "write", file |-> file,
                                text |-> Join("\n", batch_script)]>>
                  ELSE io
    /\ pc' = "saved"
    /\ UNCHANGED <<executable, arguments, inputs, outputs, name, path,
                   ensemble, scheduler, wait, stdin, cmd, schdlr, last_schdlr,
                   batch_script, error, xvgvars>>

\* lines 91-92: open(..., 'w') creates or truncates the file, write fills it;
\* either may raise
GmxWrite ==
    /\ pc = "rendered"
    /\ \E outcome \in {"written", "open fails", "write fails"} :
        LET file == ScriptFile(path, ensemble)
            opened == [op |-> "open", file |-> file, mode |-> "w"]
            written == [op |-> "write", file |-> file,
                        text |-> Join("\n", batch_script)]
        IN  /\ io' = CASE outcome = "written" -> io \o <<opened, written>>
                       [] outcome = "write fails" -> Append(io, opened)
                       [] outcome = "open fails" -> io
            /\ pc' = IF outcome = "written" THEN "saved" ELSE "raised"
            /\ error' = IF outcome = "written" THEN error ELSE "OSError"
    /\ UNCHANGED <<executable, arguments, inputs, outputs, name, path,
                   ensemble, scheduler, wait, stdin, cmd, schdlr, last_schdlr,
                   batch_script, xvgvars>>

\* lines 95-99: subprocess.run starts sbatch, or raises
GmxSubmit ==
    /\ pc = "saved"
    /\ \E started \in BOOLEAN :
        /\ io' = Append(io, [op |-> "run", argv |-> SbmttrCmd(ensemble, wait),
                             cwd |-> path, input |-> None, capture |-> FALSE])
        /\ pc' = IF started THEN "submitted" ELSE "raised"
        /\ error' = IF started THEN error ELSE "OSError"
    /\ UNCHANGED <<executable, arguments, inputs, outputs, name, path,
                   ensemble, scheduler, wait, stdin, cmd, schdlr, last_schdlr,
                   batch_script, xvgvars>>

\* line 99, the rest of subprocess.run: sbatch ends (with --wait, when the
\* job has ended); its output is not captured
GmxSubmitted ==
    /\ pc = "submitted"
    /\ pc' = "returned"
    /\ UNCHANGED <<executable, arguments, inputs, outputs, name, path,
                   ensemble, scheduler, wait, stdin, cmd, schdlr, last_schdlr,
                   batch_script, io, error, xvgvars>>

\* the call is over: its frame goes, and last_schdlr remembers the mapping it
\* built, which a later call must not depend on
GmxReturn ==
    /\ pc \in {"returned", "raised"}
    /\ pc' = "idle"
    /\ executable' = "" /\ arguments' = <<>> /\ inputs' = <<>>
    /\ outputs' = <<>> /\ name' = None /\ path' = None /\ ensemble' = None
    /\ scheduler' = None /\ wait' = FALSE /\ stdin' = None
    /\ cmd' = <<>> /\ batch_script' = <<>> /\ io' = <<>> /\ error' = "none"
    /\ last_schdlr' = IF schdlr # Unbound THEN schdlr ELSE last_schdlr
    /\ schdlr' = Unbound
    /\ UNCHANGED xvgvars

Next ==
    \/ GmxCall \/ GmxBuild \/ GmxDirect \/ GmxCommunicate \/ GmxPrint
    \/ GmxPrintStderr
    \/ GmxValidate \/ GmxRender \/ GmxWrite \/ GmxSubmit \/ GmxSubmitted
    \/ GmxReturn

Spec == Init /\ [][Next]_vars

---------------------------------------------------------------------------
(* Numbers and their formatting *)

PyInt(n) == [type |-> "int", val |-> n]

Digits == <<"0", "1", "2", "3", "4", "5", "6", "7", "8", "9">>

\* "%d" % n, n >= 0
RECURSIVE FmtInt(_)
FmtInt(n) ==
    IF n < 10 THEN Digits[n + 1]
    ELSE FmtInt(n \div 10) \o Digits[(n % 10) + 1]

\* "%02d" % n, n >= 0
Fmt02d(n) == IF n < 10 THEN "0" \o FmtInt(n) ELSE FmtInt(n)

\* "%0.2f" % n for a whole number n >= 0
Fmt2f(n) == FmtInt(n) \o ".00"

\* the floating-point values of the plots are exact fractions <<num, den>>
Frac(n) == <<n, 1>>
FracMul(p, q) == <<p[1] * q[1], p[2] * q[2]>>
FracAdd(p, q) == <<p[1] * q[2] + q[1] * p[2], p[2] * q[2]>>
FracEq(p, q) == p[1] * q[2] = q[1] * p[2]

---------------------------------------------------------------------------
(* numpy *)

\* Window without the division
WindowOnes(n) == [k \in 1..n |-> <<1, 1>>]

\* np.ones(n) / n
Window(n) == [k \in 1..n |-> <<1, n>>]

\* np.convolve(a, v, 'valid'): the longer argument comes first; the point k
\* (from 0) is the sum of long[k + j] * short[m - 1 - j] over j in 0..m-1
RECURSIVE DotReversed(_, _, _, _)
DotReversed(long, short, k, j) ==
    IF j = Len(short) THEN <<0, 1>>
    ELSE FracAdd(FracMul(long[k + j + 1], short[Len(short) - j]),
                 DotReversed(long, short, k, j + 1))

ConvolveValid(a, v) ==
    LET long == IF Len(v) > Len(a) THEN v ELSE a
        short == IF Len(v) > Len(a) THEN a ELSE v
    IN  [k \in 1..(Len(long) - Len(short) + 1) |->
            DotReversed(long, short, k - 1, 0)]

\* seq[start:], start >= 0
SliceFrom(seq, start) ==
    IF start >= Len(seq) THEN <<>> ELSE SubSeq(seq, start + 1, Len(seq))

Column(rows, c) == [k \in 1..Len(rows) |-> rows[k][c]]

\* lines 137-141 and 191-194: the overlay of a loaded table, for movavg # 0
MovingAverage(table, w) ==
    IF w < 0 THEN [error |-> "ValueError", avg |-> <<>>, x |-> <<>>]
    ELSE LET avg == ConvolveValid([k \in 1..Len(table) |-> Frac(table[k][2])],
                                  Window(w))
             x == SliceFrom(Column(table, 1), w - 1)
         IN  [error |-> IF Len(x) = Len(avg) THEN "none" ELSE "ValueError",
              avg |-> avg, x |-> x]

---------------------------------------------------------------------------
(* The plots explored *)

MaxN == 3
MaxW == 5
MaxReplicas == 7

YValues == {1, 2}
\* the tables: row k holds the time 10 * (k - 1) and a value
Tables ==
    UNION {{[k \in 1..n |-> <<10 * (k - 1), ys[k]>>] : ys \in [1..n -> YValues]} :
             n \in 1..MaxN}

xpath == "sim"
sufix == ""
label == "run"
measure == Str("T")
units == Str("K")

\* np.loadtxt of a file of n rows: a table for n >= 2, a flat array for n = 1,
\* which data[:, 0] cannot index
Loads(table) == Len(table) >= 2

---------------------------------------------------------------------------
(* xvg_line, lines 129-159: the figure it saves, or the exception *)

xvg_line(subtitle, npath, ens, w, table) ==
    LET png == npath \o "/" \o ens \o sufix \o ".png"
        raw == [x |-> Column(table, 1), y |-> Column(table, 2),
                label |-> label]
        ma == MovingAverage(table, w)
    IN  IF ~Loads(table)
            THEN [error |-> "IndexError", fig |-> <<>>, avg |-> <<>>]
        ELSE IF w = 0
            THEN [error |-> "none", avg |-> <<>>,
                  fig |-> <<[png |-> png, subtitle |-> subtitle,
                             lines |-> <<raw>>]>>]
        ELSE IF ma.error # "none"
            THEN [error |-> ma.error, fig |-> <<>>, avg |-> ma.avg]
        ELSE [error |-> "none", avg |-> ma.avg,
              fig |-> <<[png |-> png, subtitle |-> subtitle,
                         lines |-> <<raw, [x |-> ma.x, y |-> ma.avg,
                                           label |-> "10 ps Moving average"]
                                   >>]>>]

(* xvg_multi_line, lines 180-205: the lines of replicas k..n (k is i + 1   *)
(* of line 183), then the figure                                           *)

ReplicaLines(k, w, ptype, table) ==
    LET ma == MovingAverage(table, w)
        lbl == label \o " " \o FmtInt(k)
        raw == IF ptype \in {"both", "values"}
               THEN <<[x |-> Column(table, 1), y |-> Column(table, 2),
                       label |-> lbl]>>
               ELSE <<>>
        overlay == w # 0 /\ ptype \in {"both", "moving_average"}
    IN  IF ptype \in {"both", "values"} /\ ~Loads(table)      \* line 189
            THEN [error |-> "IndexError", lines |-> <<>>, avg |-> <<>>]
        ELSE IF ~overlay
            THEN [error |-> "none", lines |-> raw, avg |-> <<>>]
        ELSE IF w < 0                                          \* line 192
            THEN [error |-> "ValueError", lines |-> raw, avg |-> <<>>]
        ELSE IF ~Loads(table)                                  \* line 193
            THEN [error |-> "IndexError", lines |-> raw, avg |-> <<>>]
        ELSE IF ma.error # "none"                              \* line 194
            THEN [error |-> ma.error, lines |-> raw, avg |-> ma.avg]
        ELSE [error |-> "none", avg |-> ma.avg,
              lines |-> raw \o <<[x |-> ma.x, y |-> ma.avg,
                                  label |-> lbl \o " MA"]>>]

RECURSIVE MultiLines(_, _, _, _, _)
MultiLines(k, n, w, ptype, table) ==
    IF k > n THEN [error |-> "none", lines |-> <<>>, avg |-> <<>>]
    ELSE LET one == ReplicaLines(k, w, ptype, table)
             rest == MultiLines(k + 1, n, w, ptype, table)
         IN  IF one.error # "none" \/ k = n THEN one
             ELSE [error |-> rest.error, lines |-> one.lines \o rest.lines,
                   avg |-> rest.avg]

xvg_multi_line(p, ens, n, w, ptype, table) ==
    LET all == MultiLines(1, n, w, ptype, table)
    IN  IF all.error # "none"
            THEN [error |-> all.error, fig |-> <<>>, avg |-> all.avg]
        ELSE [error |-> "none", avg |-> all.avg,
              fig |-> <<[png |-> p \o "/" \o ens \o sufix \o ".png",
                         subtitle |-> "", lines |-> all.lines]>>]

---------------------------------------------------------------------------
(* xvg, lines 272-299 *)

ReplicaCounts == {None} \cup {PyInt(n) : n \in 0..MaxReplicas}
ValueLists == {None, List(<<300, 310, 320>>)}
XEnsembles == {"min", "temp"}
PlotTypes == {"values", "moving_average", "both"}

\* the pieces html is put together from: a tag, or (lines 278, 282, 293) one
\* image cell; time.time() is the reading of a clock
Tag(t) == [tag |-> t]
Cell(png, t) == [tag |-> "<td><img></td>", src |-> png, query |-> t]

\* lines 287-290, k the loop variable
Subtitle(ens, k, vals) ==
    IF ens = "min"
        THEN [error |-> "none", text |-> "Replica #" \o Fmt02d(k - 1)]
    ELSE IF vals = None THEN [error |-> "TypeError", text |-> ""]
    ELSE IF k > Len(vals.val) THEN [error |-> "IndexError", text |-> ""]
    ELSE [error |-> "none",
          text |-> "Replica #" \o Fmt02d(k - 1) \o " (" \o Fmt(measure)
                   \o " = " \o Fmt2f(vals.val[k]) \o Fmt(units) \o ")"]

\* line 285
ReplicaPath(p, k) == p \o "/replica" \o Fmt02d(k)

\* line 284: range(1, replicas) holds k
InRange(k, n) == 1 <= k /\ k < n

\* line 294
RowEnds(k) == k % 3 = 0

XvgCall ==
    /\ xpc = "idle"
    /\ \E n \in ReplicaCounts, ml \in BOOLEAN, pt \in PlotTypes,
          w \in (-1)..MaxW, ens \in XEnsembles, vals \in ValueLists,
          table \in Tables :
        /\ replicas' = n /\ multi_lines' = ml /\ plot_type' = pt
        /\ movavg' = w /\ xensemble' = ens /\ values' = vals /\ data' = table
    /\ xpc' = "called"
    /\ UNCHANGED <<i, html, figures, moving_avg, xerror, clock, gmxvars>>

\* lines 273, 275-278
XvgSingle ==
    /\ xpc = "called"
    /\ replicas = None
    /\ LET r == xvg_line("", xpath, xensemble, movavg, data)
       IN  /\ moving_avg' = r.avg
           /\ figures' = figures \o r.fig
           /\ xerror' = r.error
           /\ IF r.error = "none"
              THEN /\ html' = <<Tag("<table>"), Cell(r.fig[1].png, clock)>>
                   /\ clock' = clock + 1
                   /\ xpc' = "closing"
              ELSE /\ html' = <<Tag("<table>")>>
                   /\ clock' = clock
                   /\ xpc' = "raised"
    /\ UNCHANGED <<replicas, multi_lines, plot_type, movavg, xensemble,
                   values, data, i, gmxvars>>

\* lines 273, 280-282
XvgMultiLine ==
    /\ xpc = "called"
    /\ replicas # None
    /\ multi_lines
    /\ LET r == xvg_multi_line(xpath, xensemble, replicas.val, movavg,
                               plot_type, data)
       IN  /\ moving_avg' = r.avg
           /\ figures' = figures \o r.fig
           /\ xerror' = r.error
           /\ IF r.error = "none"
              THEN /\ html' = <<Tag("<table>"), Cell(r.fig[1].png, clock)>>
                   /\ clock' = clock + 1
                   /\ xpc' = "closing"
              ELSE /\ html' = <<Tag("<table>")>>
                   /\ clock' = clock
                   /\ xpc' = "raised"
    /\ UNCHANGED <<replicas, multi_lines, plot_type, movavg, xensemble,
                   values, data, i, gmxvars>>

\* lines 273, 283-284: the loop starts
XvgLoop ==
    /\ xpc = "called"
    /\ replicas # None
    /\ ~multi_lines
    /\ html' = <<Tag("<table>")>>
    /\ i' = 1
    /\ xpc' = "loop"
    /\ UNCHANGED <<replicas, multi_lines, plot_type, movavg, xensemble,
                   values, data, figures, moving_avg, xerror, clock, gmxvars>>

\* lines 285-295: one pass of the loop
XvgReplica ==
    /\ xpc = "loop"
    /\ InRange(i, replicas.val)
    /\ LET npath == ReplicaPath(xpath, i)
           sub == Subtitle(xensemble, i, values)
           r == xvg_line(sub.text, npath, xensemble, movavg, data)
       IN  IF sub.error # "none"
           THEN /\ xerror' = sub.error
                /\ xpc' = "raised"
                /\ UNCHANGED <<html, figures, moving_avg, clock, i>>
           ELSE /\ moving_avg' = r.avg
                /\ figures' = figures \o r.fig
                /\ xerror' = r.error
                /\ IF r.error = "none"
                   THEN /\ html' = html \o <<Cell(r.fig[1].png, clock)>>
                                   \o (IF RowEnds(i) THEN <<Tag("</tr>")>> ELSE <<>>)
                        /\ clock' = clock + 1
                        /\ i' = i + 1
                        /\ xpc' = "loop"
                   ELSE /\ xpc' = "raised"
                        /\ UNCHANGED <<html, clock, i>>
    /\ UNCHANGED <<replicas, multi_lines, plot_type, movavg, xensemble,
                   values, data, gmxvars>>

\* lines 297-299: the table is closed and displayed, or the display
\* raises one of DisplayErrors
XvgDisplay ==
    /\ \/ xpc = "closing"
       \/ xpc = "loop" /\ ~InRange(i, replicas.val)
    /\ html' = Append(html, Tag("</table>"))
    /\ \E outcome \in {"displayed"} \cup DisplayErrors :
        /\ xpc' = IF outcome = "displayed" THEN "displayed" ELSE "raised"
        /\ xerror' = IF outcome = "displayed" THEN xerror ELSE outcome
    /\ UNCHANGED <<replicas, multi_lines, plot_type, movavg, xensemble,
                   values, data, i, figures, moving_avg, clock, gmxvars>>

\* xvg_multi_density, lines 207-239, called by itself: line 231 names sns,
\* which the module never imports, so the first pass of the loop raises;
\* without a pass the empty figure is saved
xvg_multi_density(p, ens, n) ==
    IF n >= 1 THEN [error |-> "NameError", fig |-> <<>>]
    ELSE [error |-> "none",
          fig |-> <<[png |-> p \o "/" \o ens \o sufix \o "_density.png",
                     subtitle |-> "", lines |-> <<>>]>>]

XvgMultiDensity ==
    /\ xpc = "idle"
    /\ \E n \in 0..MaxReplicas, ens \in XEnsembles :
        LET r == xvg_multi_density(xpath, ens, n)
        IN  /\ replicas' = PyInt(n) /\ xensemble' = ens
            /\ figures' = r.fig
            /\ xerror' = r.error
            /\ xpc' = IF r.error = "none" THEN "saved" ELSE "raised"
    /\ UNCHANGED <<multi_lines, plot_type, movavg, values, data, i, html,
                   moving_avg, clock, gmxvars>>

\* the call is over
XvgReturn ==
    /\ xpc \in {"displayed", "saved", "raised"}
    /\ xpc' = "idle"
    /\ replicas' = None /\ multi_lines' = FALSE /\ plot_type' = "values"
    /\ movavg' = 0 /\ xensemble' = "" /\ values' = None /\ data' = <<>>
    /\ i' = 0 /\ html' = <<>> /\ figures' = <<>> /\ moving_avg' = <<>>
    /\ xerror' = "none" /\ clock' = 0
    /\ UNCHANGED gmxvars

NextXvg ==
    \/ XvgCall \/ XvgSingle \/ XvgMultiLine \/ XvgLoop \/ XvgReplica
    \/ XvgDisplay \/ XvgMultiDensity \/ XvgReturn

SpecXvg == Init /\ [][NextXvg]_vars

---------------------------------------------------------------------------
(* Properties of gmx *)

Missing == name = None \/ ensemble = None \/ path = None
Scheduled == executable = "mdrun" /\ ~Missing
Overridden(key) == scheduler # None /\ key \in DOMAIN scheduler.val
ValueErrors == {"ValueError: ensemble must be provided.",
                "ValueError: name must be provided.",
                "ValueError: path must be provided."}

\* C1: once built, the command line is the tool prefix ('gmx', executable, or
\* 'mpirun', 'gmx_mpi', 'mdrun' for mdrun), then the free arguments in their
\* order, then each input flag followed by its path in the mapping's order,
\* then each output flag followed by its path, and nothing else.
C1_CommandLine ==
    pc \notin {"idle", "called"} =>
        LET pre == IF executable = "mdrun"
                   THEN <<"mpirun", "gmx_mpi", "mdrun">>
                   ELSE <<"gmx", executable>>
            a == Len(pre)
            b == a + Len(arguments)
            c == b + 2 * Len(inputs)
        IN  /\ Len(cmd) = c + 2 * Len(outputs)
            /\ \A k \in 1..Len(pre) : cmd[k] = pre[k]
            /\ \A k \in 1..Len(arguments) : cmd[a + k] = arguments[k]
            /\ \A k \in 1..Len(inputs) :
                   /\ cmd[b + 2 * k - 1] = inputs[k][1]
                   /\ cmd[b + 2 * k] = inputs[k][2]
            /\ \A k \in 1..Len(outputs) :
                   /\ cmd[c + 2 * k - 1] = outputs[k][1]
                   /\ cmd[c + 2 * k] = outputs[k][2]

C1_Witness ==
    /\ pc = "built"
    /\ executable = "mdrun"
    /\ arguments = <<"-v", "-cpi">>
    /\ Len(inputs) = 2 /\ inputs[1][1] = "-f"
    /\ Len(outputs) = 2 /\ outputs[1][1] = "-o"

\* C2: a call for mdrun that lacks name, ensemble or path does nothing to any
\* file or process, whatever the scheduler override and wait are, and ends
\* with a ValueError: it never returns normally and never gets to the script.
C2_MissingParameterRaises ==
    (executable = "mdrun" /\ Missing) =>
        /\ io = <<>>
        /\ pc \in {"called", "built", "raised"}
        /\ pc = "raised" => error \in ValueErrors
        /\ batch_script = <<>>

C2_Witness ==
    /\ pc = "raised"
    /\ executable = "mdrun"
    /\ path = None /\ name # None /\ ensemble # None
    /\ Overridden("partition") /\ wait
    /\ error = "ValueError: path must be provided."

\* the defaults of lines 61-68, written out
C3_Defaults ==
    [job_name        |-> Str(name.val \o ensemble.val),
     output          |-> Str(ensemble.val \o ".slurm.log"),
     partition       |-> Str("andromeda"),
     nodes           |-> Str("1-12"),
     ntasks_per_node |-> Str("1"),
     ntasks          |-> Str("10"),
     modules         |-> List(<<"module load mpi/mpich-x86_64",
                                "module load gromacs/2023.5-plumed">>)]

\* C3: the job configuration of a scheduled call holds, for every key of the
\* override, the override's value (None included), and for every other key
\* the default: job_name name+ensemble, output ensemble+'.slurm.log',
\* partition 'andromeda', nodes '1-12', ntasks_per_node '1', ntasks '10' and
\* the two module-load lines; the script's job-name line carries its job_name.
C3_OverrideWinsPerKey ==
    schdlr # Unbound =>
        /\ \A key \in DOMAIN C3_Defaults :
               /\ key \in DOMAIN schdlr
               /\ ~Overridden(key) => schdlr[key] = C3_Defaults[key]
        /\ scheduler # None =>
               \A key \in DOMAIN scheduler.val :
                   key \in DOMAIN schdlr /\ schdlr[key] = scheduler.val[key]
        /\ batch_script[3] = "#SBATCH --job-name=" \o
               (IF schdlr["job_name"] = None THEN "None"
                ELSE schdlr["job_name"].val)

C3_Witness ==
    /\ pc = "rendered"
    /\ Overridden("nodes") /\ scheduler.val["nodes"] = None
    /\ Overridden("ntasks_per_node")
    /\ schdlr["nodes"] = None /\ schdlr["ntasks"] = Str("10")

\* the resource directives: configuration key and option name
Directives ==
    [job_name |-> "job-name", output |-> "output", partition |-> "partition",
     nodes |-> "nodes", ntasks |-> "ntasks",
     ntasks_per_node |-> "ntasks-per-node"]

LinesEqual(line) == {k \in 1..Len(batch_script) : batch_script[k] = line}

\* C4: in the script of a scheduled call, each of the six resource directives
\* (job name, output, partition, nodes, ntasks, ntasks-per-node) whose
\* configuration value is None has no line at all, no blank line left in its
\* place, and each other one has exactly one line '#SBATCH --<directive>=<value>'.
C4_NullDirectiveOmitted ==
    pc = "saved" =>
        /\ \A key \in DOMAIN Directives :
               IF schdlr[key] = None
               THEN LinesEqual("#SBATCH --" \o Directives[key] \o "=None") = {}
               ELSE Cardinality(LinesEqual("#SBATCH --" \o Directives[key]
                        \o "=" \o schdlr[key].val)) = 1
        /\ Len(batch_script) = 7 + Len(schdlr["modules"].val)
               + Cardinality({key \in DOMAIN Directives : schdlr[key] # None})

\* what a scheduled call does to files and processes, in order
C6_Expected ==
    <<[op |-> "open", file |-> path.val \o "/" \o ensemble.val \o ".slurm",
       mode |-> "w"],
      [op |-> "write", file |-> path.val \o "/" \o ensemble.val \o ".slurm",
       text |-> Join("\n", batch_script)],
      [op |-> "run",
       argv |-> IF wait THEN <<"sbatch", "--wait", ensemble.val \o ".slurm">>
                ELSE <<"sbatch", ensemble.val \o ".slurm">>,
       cwd |-> path, input |-> None, capture |-> FALSE]>>

\* C6: a scheduled call with name, ensemble and path first writes the whole
\* script, whose last line is the command line joined by single spaces, to
\* <path>/<ensemble>.slurm and only then starts sbatch, once, as
\* ['sbatch', <ensemble>.slurm] or, with wait, ['sbatch', '--wait',
\* <ensemble>.slurm], in the directory path; when the writing fails the call
\* raises and sbatch is never started.
C6_WriteThenSubmit ==
    Scheduled =>
        /\ Len(io) <= 3
        /\ io = SubSeq(C6_Expected, 1, Len(io))
        /\ pc \in {"called", "built", "validated", "rendered"} => io = <<>>
        /\ pc = "saved" => Len(io) = 2
        /\ pc \in {"submitted", "returned"} => Len(io) = 3
        /\ pc \notin {"running", "ran", "printed"}
        /\ pc = "raised" => error = "OSError"
        /\ pc \in {"rendered", "saved", "returned"} =>
               batch_script[Len(batch_script)] = Join(" ", cmd)

C6_Witness ==
    /\ pc = "returned"
    /\ Scheduled /\ wait
    /\ Len(io) = 3
    /\ io[3].argv = <<"sbatch", "--wait", "nvt.slurm">>
    /\ io[2].file = "run/nvt.slurm"

\* the places of io where a process is started
Runs == {k \in 1..Len(io) : io[k].op = "run"}

\* C9: a call for any executable but mdrun runs the command itself, once, in
\* the directory path with stdin piped, writes no script, starts no sbatch
\* and raises no parameter error though name, ensemble and path be None; a
\* call for mdrun never runs the command itself, which is only the last line
\* of the script.
C9_OneOfTwoPaths ==
    /\ (pc # "idle" /\ executable # "mdrun") =>
           /\ \A k \in 1..Len(io) : io[k].op \in {"run", "print"}
           /\ \A k \in Runs :
                  io[k] = [op |-> "run", argv |-> cmd, cwd |-> path,
                           input |-> stdin, capture |-> TRUE]
           /\ Cardinality(Runs) = IF pc \in {"called", "built"} THEN 0 ELSE 1
           /\ error \notin ValueErrors
           /\ error \in {"none", "OSError", "UnicodeDecodeError"}
                         \cup PrintErrors
           /\ error \notin {"none", "OSError", "UnicodeDecodeError"} =>
                  \E k \in 1..Len(io) : io[k].op = "print"
           /\ pc = "raised" <=> error # "none"
           /\ batch_script = <<>>
           /\ pc \in {"called", "built", "running", "ran", "printed",
                      "returned", "raised"}
    /\ executable = "mdrun" =>
           /\ pc \notin {"running", "ran", "printed"}
           /\ \A k \in Runs : io[k].argv # cmd /\ io[k].argv[1] = "sbatch"
           /\ batch_script # <<>> =>
                  batch_script[Len(batch_script)] = Join(" ", cmd)

C9_Witness ==
    /\ pc = "returned"
    /\ executable = "grompp"
    /\ name = None /\ ensemble = None /\ path = None
    /\ stdin # None
    /\ Len(io) = 3

\* the place and text of each directive line under the defaults
C10_Lines ==
    [job_name        |-> <<3, "#SBATCH --job-name=" \o name.val \o ensemble.val>>,
     output          |-> <<4, "#SBATCH --output=" \o ensemble.val \o ".slurm.log">>,
     partition       |-> <<5, "#SBATCH --partition=andromeda">>,
     nodes           |-> <<6, "#SBATCH --nodes=1-12">>,
     ntasks          |-> <<7, "#SBATCH --ntasks=10">>,
     ntasks_per_node |-> <<8, "#SBATCH --ntasks-per-node=1">>]

C10_FreshDefaults ==
    pc = "saved" =>
        /\ \A key \in DOMAIN C10_Lines :
               ~Overridden(key) =>
                   batch_script[C10_Lines[key][1]] = C10_Lines[key][2]
        /\ ~Overridden("modules") =>
               SubSeq(batch_script, 11, 12) =
                   <<"module load mpi/mpich-x86_64",
                     "module load gromacs/2023.5-plumed">>
        /\ io[2].text = Join("\n", batch_script)

C10_CallerUnchanged ==
    (pc # "idle" /\ pc' # "idle") =>
        UNCHANGED <<arguments, inputs, outputs, scheduler>>

\* C10: the script a call writes carries, for every key its own override
\* lacks, the default of that key, whatever an earlier call overrode; and no
\* step of a call changes the caller's arguments, inputs, outputs or
\* scheduler.
C10_CallsIndependent == []C10_FreshDefaults /\ [][C10_CallerUnchanged]_vars

C10_Witness ==
    /\ pc = "saved"
    /\ last_schdlr # Unbound
    /\ last_schdlr["partition"] = Str("gpu")
    /\ ~Overridden("partition")
    /\ Overridden("ntasks")

---------------------------------------------------------------------------
(* Properties of xvg *)

\* the calls that plot an overlay: xvg_line always does, xvg_multi_line for
\* the plot types 'both' and 'moving_average'
Overlaid ==
    (replicas # None /\ multi_lines) => plot_type \in {"both", "moving_average"}

IsOverlay(line) ==
    \/ line.label = "10 ps Moving average"
    \/ \E k \in 1..MaxReplicas : line.label = label \o " " \o FmtInt(k) \o " MA"

\* the sum of the w values of data from row k on (rows from 1)
RECURSIVE WindowSum(_, _)
WindowSum(k, w) == IF w = 0 THEN 0 ELSE data[k][2] + WindowSum(k + 1, w - 1)

MeanOfWindows(line, n, w) ==
    /\ Len(line.y) = n - w + 1
    /\ Len(line.x) = n - w + 1
    /\ \A k \in 1..(n - w + 1) :
           /\ FracEq(line.y[k], <<WindowSum(k, w), w>>)
           /\ line.x[k] = data[w - 1 + k][1]

\* C5 as it stands: for a table of n rows and any window w but 0, the overlay
\* computed has n - w + 1 points (here for a table that loads, n >= 2, and a
\* positive w).
C5_AnyWindow ==
    (Len(data) >= 2 /\ movavg >= 1 /\ moving_avg # <<>>) =>
        Len(moving_avg) = Len(data) - movavg + 1

\* C5, amended: for a table of n >= 2 rows and a window 1 <= w <= n, no plot
\* fails, the overlay computed has n - w + 1 points, and every figure saved
\* holds it: point k is the mean of the w values from row k on, against the
\* x of rows w-1 .. n-1; xvg_line plots one overlay, xvg_multi_line one for
\* each replica.
C5_WindowWithinSeries ==
    (Len(data) >= 2 /\ 1 <= movavg /\ movavg <= Len(data) /\ Overlaid) =>
        /\ xerror \in {"none", "TypeError", "IndexError"} \cup DisplayErrors
        /\ moving_avg # <<>> => Len(moving_avg) = Len(data) - movavg + 1
        /\ xpc = "displayed" /\ (replicas = None \/ multi_lines) =>
               figures # <<>>
        /\ \A f \in 1..Len(figures) :
               LET overlays == {k \in 1..Len(figures[f].lines) :
                                   IsOverlay(figures[f].lines[k])}
               IN  /\ Cardinality(overlays) =
                          IF replicas # None /\ multi_lines
                          THEN replicas.val ELSE 1
                   /\ \A k \in overlays :
                          MeanOfWindows(figures[f].lines[k], Len(data), movavg)

C5_Witness ==
    /\ xpc = "displayed"
    /\ replicas = None
    /\ Len(data) = 3 /\ movavg = 2
    /\ data[1][2] = 1 /\ data[2][2] = 2 /\ data[3][2] = 2
    /\ Len(figures) = 1
    /\ Len(figures[1].lines[2].y) = 2
    /\ FracEq(figures[1].lines[2].y[1], <<3, 2>>)
    /\ figures[1].lines[2].x = <<10, 20>>

\* the image cells of the gallery, in order
IsCell(e) == e.tag = "<td><img></td>"
Cells == SelectSeq(html, IsCell)

\* C7: displayed for replicas = N >= 1 without multi_lines, the gallery has
\* N image cells and N figures were saved, the k-th for replica k, the k-th
\* cell referencing the PNG of the k-th figure.
C7_OnePlotPerReplica ==
    (xpc = "displayed" /\ replicas # None /\ ~multi_lines) =>
        /\ Len(figures) = replicas.val
        /\ Len(Cells) = replicas.val
        /\ \A k \in 1..replicas.val :
               /\ figures[k].png = xpath \o "/replica" \o Fmt02d(k) \o "/"
                                   \o xensemble \o sufix \o ".png"
               /\ Cells[k].src = figures[k].png

CellAt(p) == IsCell(html[p])

InOpenedRow(p) ==
    \E a \in 1..(p - 1) :
        html[a].tag = "<tr>" /\ \A b \in (a + 1)..(p - 1) : html[b].tag # "</tr>"

InClosedRow(p) ==
    \E z \in (p + 1)..Len(html) :
        html[z].tag = "</tr>" /\ \A b \in (p + 1)..(z - 1) : html[b].tag # "<tr>"

\* the cells between the row opening at a and the next row closing
RowCells(a) ==
    {p \in (a + 1)..Len(html) :
        CellAt(p) /\ \A b \in (a + 1)..(p - 1) :
                         html[b].tag \notin {"<tr>", "</tr>"}}

\* C8: the gallery displayed without multi_lines is a well-formed table of
\* rows of three: every image cell has an opened row before it (a <tr> with
\* no </tr> since) that is closed after it (a </tr> with no <tr> before it),
\* and no row holds more than three cells, only the last fewer.
C8_RowsOfThree ==
    (xpc = "displayed" /\ replicas # None /\ ~multi_lines) =>
        /\ \A p \in 1..Len(html) :
               CellAt(p) => InOpenedRow(p) /\ InClosedRow(p)
        /\ \A a \in 1..Len(html) :
               html[a].tag = "<tr>" =>
                   /\ Cardinality(RowCells(a)) <= 3
                   /\ (\E b \in (a + 1)..Len(html) : html[b].tag = "<tr>") =>
                          Cardinality(RowCells(a)) = 3

=============================================================================
